---- MODULE Spec2Model ----
(***************************************************************************)
(* Verification model of two pieces of libtomcrypt:                        *)
(*   - ecc_verify_hash_ex   (src/src/pk/ecc/ecc_verify_hash.c)             *)
(*   - the OpenSSH private-key container demo (src/demos/openssh-privkey.c)*)
(*                                                                         *)
(* Big integers (mp_int) are modelled by TLA+ integers.  A value read from *)
(* a byte string that reaches MpCap is represented by MpCap itself: every  *)
(* modelled modulus is far below MpCap, so comparisons against a modulus   *)
(* are exact.                                                              *)
(***************************************************************************)
EXTENDS Integers, Sequences, FiniteSets, TLC

VARIABLES
  \* ---- ecc_verify_hash_ex -------------------------------------------
  vpc,        \* position inside ecc_verify_hash_ex
  sig,        \* signature bytes (siglen = Len(sig))
  hash,       \* digest bytes (hashlen = Len(hash))
  sigformat,  \* ecc_signature_type selector
  key,        \* the public ecc_key
  stat,       \* *stat
  err,        \* err / the value returned
  r, s, e, v, \* the mp_ints of the same names
  sigRead,    \* ghost: some byte of sig has been read by a decoder
  eqDone,     \* ghost: the verification equation has been evaluated
  \* ---- demos/openssh-privkey.c ----------------------------------------
  cpc,        \* position inside main and the functions it calls
  b64_decoded,\* the container bytes after PEM and base64 removal
  opts,       \* struct kdf_options opts (cipher: index into ssh_ciphers)
  hdr,        \* ciphername, kdfname, kdfoptions of ssh_decode_header
  remaining,  \* main: the bytes at p, after the header
  privkey,    \* main: the private-key section
  dec,        \* ssh_decrypt_private_keys: cipher, symkey_len, symkey
  pk,         \* ssh_decode_private_key: check1, check2, pka, n
  cur,        \* ssh_decode_private_key: the bytes at p
  pka_key,    \* main: pka_key k
  scratch,    \* state of the secret-bearing scratch buffers
  exitmsg,    \* message of the DIE / die that ended the process
  trace       \* ghost: the steps of ssh_decode_private_key taken so far

vvars == <<vpc, sig, hash, sigformat, key, stat, err, r, s, e, v, sigRead, eqDone>>

cvars == <<cpc, b64_decoded, opts, hdr, remaining, privkey, dec, pk, cur, pka_key, scratch, exitmsg, trace>>

vars == <<vvars, cvars>>

\* ---------------------------------------------------------------------
\* Generic helpers
\* ---------------------------------------------------------------------
MpCap == 65536

Min(a, b) == IF a < b THEN a ELSE b

RECURSIVE Pow2(_)
Pow2(k) == IF k = 0 THEN 1 ELSE 2 * Pow2(k - 1)

\* mp_count_bits: number of significant bits of a non-negative integer
RECURSIVE mp_count_bits(_)
mp_count_bits(a) == IF a = 0 THEN 0 ELSE 1 + mp_count_bits(a \div 2)

\* mp_unsigned_bin_size: number of bytes of the unsigned big-endian form
mp_unsigned_bin_size(a) == (mp_count_bits(a) + 7) \div 8

\* mp_read_unsigned_bin(a, b, len): big-endian unsigned value of b.
\* With three or more significant bytes the value is at least MpCap.
mp_read_unsigned_bin(b) ==
  LET nz  == { i \in 1..Len(b) : b[i] # 0 }
      top == IF nz = {} THEN Len(b) + 1 ELSE CHOOSE i \in nz : \A j \in nz : i <= j
      n   == Len(b) - top + 1
  IN IF n = 0 THEN 0
     ELSE IF n = 1 THEN b[Len(b)]
     ELSE IF n = 2 THEN Min(b[Len(b) - 1] * 256 + b[Len(b)], MpCap)
     ELSE MpCap

\* bitwise exclusive or of two bytes
RECURSIVE Xor8(_, _, _)
Xor8(a, b, k) ==
  IF k = 0 THEN 0
  ELSE (((a % 2) + (b % 2)) % 2) + 2 * Xor8(a \div 2, b \div 2, k - 1)

Take(q, n) == SubSeq(q, 1, Min(n, Len(q)))
Drop(q, n) == SubSeq(q, n + 1, Len(q))

\* mp_mod(a, b, c): the remainder takes the sign of the modulus
mp_mod(a, b) ==
  IF b > 0 THEN a % b
  ELSE LET t == a % (0 - b) IN IF t = 0 THEN 0 ELSE t + b

\* ---------------------------------------------------------------------
\* Return codes and selectors
\* ---------------------------------------------------------------------
CRYPT_OK             == "CRYPT_OK"
CRYPT_ERROR          == "CRYPT_ERROR"
CRYPT_INVALID_PACKET == "CRYPT_INVALID_PACKET"
CRYPT_INVALID_ARG    == "CRYPT_INVALID_ARG"
CRYPT_MEM            == "CRYPT_MEM"
CRYPT_BUFFER_OVERFLOW == "CRYPT_BUFFER_OVERFLOW"
CRYPT_PK_INVALID_TYPE == "CRYPT_PK_INVALID_TYPE"

LTC_ECCSIG_ANSIX962 == "LTC_ECCSIG_ANSIX962"
LTC_ECCSIG_RFC7518  == "LTC_ECCSIG_RFC7518"
LTC_ECCSIG_ETH27    == "LTC_ECCSIG_ETH27"
LTC_ECCSIG_RFC5656  == "LTC_ECCSIG_RFC5656"
\* a selector value outside the enumeration
ECCSIG_OTHER        == "ECCSIG_OTHER"

SigFormats == {LTC_ECCSIG_ANSIX962, LTC_ECCSIG_RFC7518, LTC_ECCSIG_ETH27,
               LTC_ECCSIG_RFC5656, ECCSIG_OTHER}

\* ---------------------------------------------------------------------
\* Elliptic-curve arithmetic over a small prime field (the library's
\* ltc_mp.ecc_ptmul / ecc_ptadd / ecc_map / ecc_mul2add)
\* ---------------------------------------------------------------------
Inf == [x |-> 0, y |-> 0, inf |-> TRUE]
Pt(px, py) == [x |-> px, y |-> py, inf |-> FALSE]

\* mp_invmod: defined when gcd(a, m) = 1
HasInv(a, m) == \E k \in 1..(m - 1) : (a * k) % m = 1
InvMod(a, m) == CHOOSE k \in 1..(m - 1) : (a * k) % m = 1

PtAdd(P, Q, c) ==
  IF P.inf THEN Q
  ELSE IF Q.inf THEN P
  ELSE IF P.x = Q.x /\ (P.y + Q.y) % c.prime = 0 THEN Inf
  ELSE LET m   == c.prime
           lam == IF P = Q
                  THEN ((3 * P.x * P.x + c.A) * InvMod((2 * P.y) % m, m)) % m
                  ELSE (((Q.y - P.y) % m) * InvMod((Q.x - P.x) % m, m)) % m
           x3  == (lam * lam - P.x - Q.x) % m
       IN Pt(x3, (lam * (P.x - x3) - P.y) % m)

RECURSIVE PtMul(_, _, _)
PtMul(k, P, c) ==
  IF k = 0 THEN Inf
  ELSE LET h == PtMul(k \div 2, P, c)
           d == PtAdd(h, h, c)
       IN IF k % 2 = 1 THEN PtAdd(d, P, c) ELSE d

\* u1*G + u2*Q mapped back to affine; the point at infinity maps to x = 0
ecc_mul2add(G, u1, Q, u2, c) == PtAdd(PtMul(u1, G, c), PtMul(u2, Q, c), c)

\* ---------------------------------------------------------------------
\* Curves and keys.  oid is key->dp.oid, name the SSH curve name.
\* ---------------------------------------------------------------------
OID_SECP256K1 == <<1, 3, 132, 0, 10>>
OID_OTHER_A   == <<1, 2, 840, 10045, 3, 1, 7>>
OID_OTHER_B   == <<1, 3, 132, 0, 34>>

\* "t19", "t197", "t257" in ASCII
NameT19  == <<116, 49, 57>>
NameT197 == <<116, 49, 57, 55>>
NameT257 == <<116, 50, 53, 55>>

CurveT19  == [prime |-> 17,  A |-> 2,   B |-> 2, order |-> 19,  base |-> Pt(5, 1),  name |-> NameT19]
CurveT197 == [prime |-> 211, A |-> 208, B |-> 5, order |-> 197, base |-> Pt(0, 65), name |-> NameT197]
CurveT257 == [prime |-> 239, A |-> 2,   B |-> 1, order |-> 257, base |-> Pt(0, 1),  name |-> NameT257]

MkKey(c, oid, d) == [dp |-> c, oid |-> oid, pubkey |-> PtMul(d, c.base, c)]

Keys == { MkKey(CurveT19, OID_SECP256K1, 7),
          MkKey(CurveT19, OID_OTHER_A, 7),
          MkKey(CurveT197, OID_OTHER_B, 3),
          MkKey(CurveT257, OID_OTHER_B, 5) }

\* pk_oid_cmp_with_ulong("1.3.132.0.10", key->dp.oid, key->dp.oidlen)
pk_oid_cmp_with_ulong(oid) == IF oid = OID_SECP256K1 THEN CRYPT_OK ELSE CRYPT_ERROR

\* ---------------------------------------------------------------------
\* Wire encodings consumed through the library's decoders
\* ---------------------------------------------------------------------
\* minimal big-endian form of a non-negative integer (empty for zero)
RECURSIVE UBytes(_)
UBytes(n) == IF n = 0 THEN <<>> ELSE Append(UBytes(n \div 256), n % 256)

\* n (below 2^24) written big-endian in exactly w bytes
FixedBytes(n, w) ==
  [i \in 1..w |-> IF w - i >= 3 THEN 0 ELSE (n \div Pow2(8 * (w - i))) % 256]

\* contents of a DER INTEGER (two's complement, -128 <= n)
DerIntBody(n) ==
  IF n < 0 THEN <<256 + n>>
  ELSE IF n = 0 THEN <<0>>
  ELSE LET b == UBytes(n) IN IF Head(b) >= 128 THEN <<0>> \o b ELSE b

DerInt(n) == LET b == DerIntBody(n) IN <<2, Len(b)>> \o b

\* SEQUENCE { INTEGER r, INTEGER s }
DerSig(rr, ss) == LET b == DerInt(rr) \o DerInt(ss) IN <<48, Len(b)>> \o b

\* one INTEGER at the head of b: [ok, val, rest]
DerDecodeInt(b) ==
  IF Len(b) < 3 \/ b[1] # 2 \/ b[2] = 0 \/ b[2] >= 128 \/ b[2] > Len(b) - 2
  THEN [ok |-> FALSE, val |-> 0, rest |-> <<>>]
  ELSE LET body == SubSeq(b, 3, 2 + b[2])
           u    == mp_read_unsigned_bin(body)
       IN [ok   |-> TRUE,
           val  |-> IF body[1] >= 128 THEN u - Pow2(8 * Len(body)) ELSE u,
           rest |-> Drop(b, 2 + b[2])]

\* der_decode_sequence_multi_ex(sig, siglen, SEQUENCE | STRICT, INTEGER r, INTEGER s)
der_decode_sequence_multi_ex(b) ==
  IF Len(b) < 2 \/ b[1] # 48 \/ b[2] >= 128 \/ b[2] # Len(b) - 2
  THEN [err |-> CRYPT_INVALID_PACKET, r |-> 0, s |-> 0]
  ELSE LET i1 == DerDecodeInt(Drop(b, 2))
           i2 == DerDecodeInt(i1.rest)
       IN IF i1.ok /\ i2.ok /\ i2.rest = <<>>
          THEN [err |-> CRYPT_OK, r |-> i1.val, s |-> i2.val]
          ELSE [err |-> CRYPT_INVALID_PACKET, r |-> 0, s |-> 0]

\* SSH wire types (RFC 4251): uint32, string, mpint
SshUint32(n) == FixedBytes(n, 4)
SshString(str) == SshUint32(Len(str)) \o str
SshMpint(n) ==
  LET b == UBytes(n) IN
  SshString(IF b # <<>> /\ Head(b) >= 128 THEN <<0>> \o b ELSE b)

\* one length-prefixed field at the head of b that must fit a buffer of
\* max bytes: [err, val, rest]
SshDecodeString(b, max) ==
  IF Len(b) < 4 THEN [err |-> CRYPT_INVALID_PACKET, val |-> <<>>, rest |-> <<>>]
  ELSE LET n == mp_read_unsigned_bin(SubSeq(b, 1, 4)) IN
       IF n > Len(b) - 4 THEN [err |-> CRYPT_INVALID_PACKET, val |-> <<>>, rest |-> <<>>]
       ELSE IF n > max THEN [err |-> CRYPT_BUFFER_OVERFLOW, val |-> <<>>, rest |-> <<>>]
       ELSE [err |-> CRYPT_OK, val |-> SubSeq(b, 5, 4 + n), rest |-> Drop(b, 4 + n)]

\* the uint32 is kept as its four bytes
SshDecodeUint32(b) ==
  IF Len(b) < 4 THEN [err |-> CRYPT_INVALID_PACKET, val |-> <<>>, rest |-> <<>>]
  ELSE [err |-> CRYPT_OK, val |-> SubSeq(b, 1, 4), rest |-> Drop(b, 4)]

\* an mpint is read as an unsigned big-endian value
SshDecodeMpint(b) ==
  LET f == SshDecodeString(b, MpCap) IN
  [err |-> f.err, val |-> mp_read_unsigned_bin(f.val), rest |-> f.rest]

\* "ecdsa-sha2-"
EcdsaPrefix == <<101, 99, 100, 115, 97, 45, 115, 104, 97, 50, 45>>

\* ecc_ssh_ecdsa_encode_name(name2, &name2len, key)
ecc_ssh_ecdsa_encode_name(k) == EcdsaPrefix \o k.dp.name

\* ssh_decode_sequence_multi(sig, &siglen, STRING name, MPINT r, MPINT s, EOL)
SshDecodeSig(b) ==
  LET f1 == SshDecodeString(b, 64)
      f2 == SshDecodeMpint(f1.rest)
      f3 == SshDecodeMpint(f2.rest)
  IN IF f1.err # CRYPT_OK THEN [err |-> f1.err, name |-> <<>>, r |-> 0, s |-> 0]
     ELSE IF f2.err # CRYPT_OK THEN [err |-> f2.err, name |-> <<>>, r |-> 0, s |-> 0]
     ELSE IF f3.err # CRYPT_OK THEN [err |-> f3.err, name |-> <<>>, r |-> 0, s |-> 0]
     ELSE [err |-> CRYPT_OK, name |-> f1.val, r |-> f2.val, s |-> f3.val]

SshSig(name, rr, ss) == SshString(name) \o SshMpint(rr) \o SshMpint(ss)

\* ---------------------------------------------------------------------
\* ecc_verify_hash_ex: signature decoding, one operator per format.
\* Each yields [err, r, s, read]; read tells whether bytes of sig were read.
\* ---------------------------------------------------------------------
DecodeResult(code, rr, ss, rd) == [err |-> code, r |-> rr, s |-> ss, read |-> rd]

DecodeAnsiX962(sg, k) ==
  LET d == der_decode_sequence_multi_ex(sg) IN DecodeResult(d.err, d.r, d.s, Len(sg) > 0)

\* a decoder that only requires enough bytes and reads what is there
DecodeRfc7518Lax(sg, k) ==
  LET i == mp_unsigned_bin_size(k.dp.order) IN
  IF Len(sg) > 2 * i THEN DecodeResult(CRYPT_INVALID_PACKET, 0, 0, FALSE)
  ELSE DecodeResult(CRYPT_OK,
                    mp_read_unsigned_bin(SubSeq(sg, 1, Min(i, Len(sg)))),
                    mp_read_unsigned_bin(SubSeq(sg, i + 1, Len(sg))), TRUE)

DecodeRfc7518(sg, k) ==
  LET i == mp_unsigned_bin_size(k.dp.order) IN
  IF Len(sg) # 2 * i THEN DecodeResult(CRYPT_INVALID_PACKET, 0, 0, FALSE)
  ELSE DecodeResult(CRYPT_OK,
                    mp_read_unsigned_bin(SubSeq(sg, 1, i)),
                    mp_read_unsigned_bin(SubSeq(sg, i + 1, 2 * i)), TRUE)

\* a decoder that takes r and s from behind a leading byte
DecodeEth27Lead(sg, k) ==
  IF pk_oid_cmp_with_ulong(k.oid) # CRYPT_OK THEN DecodeResult(CRYPT_ERROR, 0, 0, FALSE)
  ELSE IF Len(sg) # 65 THEN DecodeResult(CRYPT_INVALID_PACKET, 0, 0, FALSE)
  ELSE DecodeResult(CRYPT_OK,
                    mp_read_unsigned_bin(SubSeq(sg, 2, 33)),
                    mp_read_unsigned_bin(SubSeq(sg, 34, 65)), TRUE)

\* a decoder that checks the length before the curve
DecodeEth27LenFirst(sg, k) ==
  IF Len(sg) # 65 THEN DecodeResult(CRYPT_INVALID_PACKET, 0, 0, FALSE)
  ELSE IF pk_oid_cmp_with_ulong(k.oid) # CRYPT_OK THEN DecodeResult(CRYPT_ERROR, 0, 0, FALSE)
  ELSE DecodeResult(CRYPT_OK,
                    mp_read_unsigned_bin(SubSeq(sg, 1, 32)),
                    mp_read_unsigned_bin(SubSeq(sg, 33, 64)), TRUE)

DecodeEth27(sg, k) ==
  IF pk_oid_cmp_with_ulong(k.oid) # CRYPT_OK THEN DecodeResult(CRYPT_ERROR, 0, 0, FALSE)
  ELSE IF Len(sg) # 65 THEN DecodeResult(CRYPT_INVALID_PACKET, 0, 0, FALSE)
  ELSE DecodeResult(CRYPT_OK,
                    mp_read_unsigned_bin(SubSeq(sg, 1, 32)),
                    mp_read_unsigned_bin(SubSeq(sg, 33, 64)), TRUE)

DecodeRfc5656(sg, k) ==
  LET d     == SshDecodeSig(sg)
      name2 == ecc_ssh_ecdsa_encode_name(k)
  IN IF d.err # CRYPT_OK THEN DecodeResult(d.err, 0, 0, Len(sg) > 0)
     ELSE IF Len(d.name) # Len(name2) \/ d.name # name2
          THEN DecodeResult(CRYPT_INVALID_ARG, d.r, d.s, TRUE)
     ELSE DecodeResult(CRYPT_OK, d.r, d.s, TRUE)

\* a range check that lets r = n and s = n through
RangeOkLe(rr, ss, p) == rr > 0 /\ ss > 0 /\ rr <= p /\ ss <= p

\* mp_cmp_d(r,0) == GT && mp_cmp_d(s,0) == GT && mp_cmp(r,p) == LT && mp_cmp(s,p) == LT
RangeOk(rr, ss, p) == rr > 0 /\ ss > 0 /\ rr < p /\ ss < p

\* the shift branch of the digest reduction: buf[0..pbytes-1]
RECURSIVE ShiftBuf(_, _, _, _, _)
ShiftBuf(h, i, pbytes, ch, shift_right) ==
  IF i > pbytes THEN <<>>
  ELSE LET nch == (h[i] * Pow2(8 - shift_right)) % 256
           b   == Xor8(ch, h[i] \div Pow2(shift_right), 8)
       IN <<b>> \o ShiftBuf(h, i + 1, pbytes, nch, shift_right)

\* a reduction that cuts the digest to whole bytes and never shifts
ReduceHashBytes(h, p) ==
  LET pbits  == mp_count_bits(p)
      pbytes == (pbits + 7) \div 8
  IN IF pbits > Len(h) * 8 THEN mp_read_unsigned_bin(h)
     ELSE mp_read_unsigned_bin(SubSeq(h, 1, pbytes))

\* read hash - truncate if needed
ReduceHash(h, p) ==
  LET pbits  == mp_count_bits(p)
      pbytes == (pbits + 7) \div 8
  IN IF pbits > Len(h) * 8 THEN mp_read_unsigned_bin(h)
     ELSE IF pbits % 8 = 0 THEN mp_read_unsigned_bin(SubSeq(h, 1, pbytes))
     ELSE mp_read_unsigned_bin(ShiftBuf(h, 1, pbytes, 0, 8 - (pbits % 8)))

\* v = X_x1 mod n of u1*G + u2*Q, with w = s^-1, u1 = e*w, u2 = r*w (mod n)
ComputeV(rr, ss, ee, k) ==
  LET p  == k.dp.order
      w  == InvMod(ss, p)
      u1 == (ee * w) % p
      u2 == (rr * w) % p
      mG == ecc_mul2add(k.dp.base, u1, k.pubkey, u2, k.dp)
  IN mp_mod(mG.x, p)

\* a comparison that accepts v <= r
SigAcceptLe(vv, rr) == vv <= rr

\* does v == r
SigAccept(vv, rr) == vv = rr

\* ---------------------------------------------------------------------
\* Values of the variables of the part that is not running
\* ---------------------------------------------------------------------
NoKey == [id |-> "unset"]

CIdle ==
  /\ cpc = "off" /\ b64_decoded = <<>>
  /\ opts = [name |-> <<>>, cipher |-> 0, salt |-> <<>>, num_rounds |-> 0]
  /\ hdr = [ciphername |-> <<>>, kdfname |-> <<>>, kdfoptions |-> <<>>]
  /\ remaining = <<>> /\ privkey = <<>>
  /\ dec = [cipher |-> 0, symkey_len |-> 0, symkey |-> <<>>]
  /\ pk = [check1 |-> <<>>, check2 |-> <<>>, pka |-> <<>>, n |-> 0]
  /\ cur = <<>> /\ pka_key = NoKey
  /\ scratch = [symkey |-> "unset", cbc_ctx |-> "unset", ecdsa |-> "unset",
                ed25519 |-> "unset", rsa_tmp |-> "unset"]
  /\ exitmsg = "" /\ trace = <<>>

VIdle ==
  /\ vpc = "off" /\ sig = <<>> /\ hash = <<>> /\ sigformat = ECCSIG_OTHER
  /\ key = MkKey(CurveT19, OID_OTHER_A, 7) /\ stat = 0 /\ err = "unset"
  /\ r = 0 /\ s = 0 /\ e = 0 /\ v = 0
  /\ sigRead = FALSE /\ eqDone = FALSE

\* ---------------------------------------------------------------------
\* Inputs of ecc_verify_hash_ex
\* ---------------------------------------------------------------------
\* candidate values of r and s around the range limits of the key's order
RSVals(k) == {0, 1, 2, 5, 7, 11, k.dp.order - 1, k.dp.order, k.dp.order + 1}

OtherName(k) == IF k.dp.name = NameT19 THEN NameT197 ELSE NameT19

SigsRfc7518(k) ==
  LET i == mp_unsigned_bin_size(k.dp.order) IN
  { FixedBytes(rr, i) \o FixedBytes(ss, i) : rr \in RSVals(k), ss \in RSVals(k) }
    \cup { FixedBytes(5, 2 * i - 1), FixedBytes(5, 2 * i + 1), <<>> }

SigsEth27(k) ==
  { <<vv>> \o FixedBytes(rr, 32) \o FixedBytes(ss, 32) :
       vv \in {0, 27}, rr \in RSVals(k), ss \in RSVals(k) }
    \cup { FixedBytes(rr, 32) \o FixedBytes(ss, 32) \o <<vv>> :
       vv \in {0, 27}, rr \in RSVals(k), ss \in RSVals(k) }
    \cup { FixedBytes(5, 64), FixedBytes(5, 66), <<>> }

SigsAnsiX962(k) ==
  { DerSig(rr, ss) : rr \in RSVals(k) \cup {-1}, ss \in RSVals(k) \cup {-1} }
    \cup { <<>>, <<48>>, <<49, 6, 2, 1, 5, 2, 1, 7>>, <<48, 6, 2, 1, 5, 2, 1>>,
           <<48, 6, 2, 1, 5, 2, 1, 7, 0>>, <<48, 6, 2, 1, 5, 4, 1, 7>> }

SigsRfc5656(k) ==
  { SshSig(nm, rr, ss) : nm \in {ecc_ssh_ecdsa_encode_name(k), EcdsaPrefix \o OtherName(k)},
                         rr \in RSVals(k), ss \in RSVals(k) }
    \cup { <<>>, <<0, 0, 0, 9, 101>>, SshString(ecc_ssh_ecdsa_encode_name(k)) \o SshMpint(5) }

SigsFor(fmt, k) ==
  CASE fmt = LTC_ECCSIG_ANSIX962 -> SigsAnsiX962(k)
    [] fmt = LTC_ECCSIG_RFC7518  -> SigsRfc7518(k)
    [] fmt = LTC_ECCSIG_ETH27    -> SigsEth27(k)
    [] fmt = LTC_ECCSIG_RFC5656  -> SigsRfc5656(k)
    [] OTHER                     -> { <<5, 7>> }

Hashes == { <<>>, <<90>>, <<255>>, <<165, 60>>, <<1, 0>> }

\* ---------------------------------------------------------------------
\* ecc_verify_hash_ex as a state machine
\* ---------------------------------------------------------------------
\* before the call: the arguments are chosen and the caller's stat holds anything
VInit ==
  /\ vpc = "idle"
  /\ key \in Keys /\ sigformat \in SigFormats
  /\ sig \in SigsFor(sigformat, key) /\ hash \in Hashes
  /\ stat \in {0, 1} /\ err = "unset"
  /\ r = 0 /\ s = 0 /\ e = 0 /\ v = 0
  /\ sigRead = FALSE /\ eqDone = FALSE
  /\ CIdle

\* entry: default to invalid signature
VerifyCall ==
  /\ vpc = "idle"
  /\ stat' = 0
  /\ vpc' = "alloc"
  /\ UNCHANGED <<cvars, sig, hash, sigformat, key, err, r, s, e, v, sigRead, eqDone>>

\* mp_init_multi, mp_add_d and ltc_ecc_new_point succeed
VerifyAllocOk ==
  /\ vpc = "alloc"
  /\ vpc' = "decode"
  /\ UNCHANGED <<cvars, sig, hash, sigformat, key, stat, err, r, s, e, v, sigRead, eqDone>>

\* one of them fails: the call returns the error
VerifyAllocFail ==
  /\ vpc = "alloc"
  /\ err' = CRYPT_MEM
  /\ vpc' = "ret"
  /\ UNCHANGED <<cvars, sig, hash, sigformat, key, stat, r, s, e, v, sigRead, eqDone>>

\* common tail of the four decoding branches
VerifyDecoded(d) ==
  /\ r' = d.r /\ s' = d.s /\ sigRead' = d.read
  /\ IF d.err # CRYPT_OK
     THEN err' = d.err /\ vpc' = "ret"
     ELSE err' = err /\ vpc' = "range"
  /\ UNCHANGED <<cvars, sig, hash, sigformat, key, stat, e, v, eqDone>>

VerifyDecodeAnsiX962 ==
  /\ vpc = "decode" /\ sigformat = LTC_ECCSIG_ANSIX962
  /\ VerifyDecoded(DecodeAnsiX962(sig, key))

VerifyDecodeRfc7518 ==
  /\ vpc = "decode" /\ sigformat = LTC_ECCSIG_RFC7518
  /\ VerifyDecoded(DecodeRfc7518(sig, key))

VerifyDecodeEth27 ==
  /\ vpc = "decode" /\ sigformat = LTC_ECCSIG_ETH27
  /\ VerifyDecoded(DecodeEth27(sig, key))

VerifyDecodeRfc5656 ==
  /\ vpc = "decode" /\ sigformat = LTC_ECCSIG_RFC5656
  /\ VerifyDecoded(DecodeRfc5656(sig, key))

\* unknown signature format
VerifyDecodeUnknown ==
  /\ vpc = "decode"
  /\ sigformat \notin {LTC_ECCSIG_ANSIX962, LTC_ECCSIG_RFC7518, LTC_ECCSIG_ETH27, LTC_ECCSIG_RFC5656}
  /\ err' = CRYPT_ERROR /\ vpc' = "ret"
  /\ UNCHANGED <<cvars, sig, hash, sigformat, key, stat, r, s, e, v, sigRead, eqDone>>

\* check for zero
VerifyRangeCheck ==
  /\ vpc = "range"
  /\ IF RangeOk(r, s, key.dp.order)
     THEN err' = err /\ vpc' = "hash"
     ELSE err' = CRYPT_INVALID_PACKET /\ vpc' = "ret"
  /\ UNCHANGED <<cvars, sig, hash, sigformat, key, stat, r, s, e, v, sigRead, eqDone>>

VerifyReadHash ==
  /\ vpc = "hash"
  /\ e' = ReduceHash(hash, key.dp.order)
  /\ vpc' = "eq"
  /\ UNCHANGED <<cvars, sig, hash, sigformat, key, stat, err, r, s, v, sigRead, eqDone>>

\* w = s^-1 mod n ... does v == r; then the cleanup and the return
VerifyEquation ==
  /\ vpc = "eq"
  /\ eqDone' = TRUE
  /\ IF ~HasInv(s, key.dp.order)
     THEN /\ err' = CRYPT_INVALID_ARG /\ v' = v /\ stat' = stat
     ELSE /\ v' = ComputeV(r, s, e, key)
          /\ stat' = IF SigAccept(v', r) THEN 1 ELSE stat
          /\ err' = CRYPT_OK
  /\ vpc' = "ret"
  /\ UNCHANGED <<cvars, sig, hash, sigformat, key, r, s, e, sigRead>>

VNext ==
  \/ VerifyCall
  \/ VerifyAllocOk
  \/ VerifyAllocFail
  \/ VerifyDecodeAnsiX962
  \/ VerifyDecodeRfc7518
  \/ VerifyDecodeEth27
  \/ VerifyDecodeRfc5656
  \/ VerifyDecodeUnknown
  \/ VerifyRangeCheck
  \/ VerifyReadHash
  \/ VerifyEquation

SpecVerify == VInit /\ [][VNext]_vars

\* =====================================================================
\* OpenSSH private-key container (demos/openssh-privkey.c)
\* =====================================================================
\* "none"
StrNone == <<110, 111, 110, 101>>
\* "aes256-cbc"
StrAes256Cbc == <<97, 101, 115, 50, 53, 54, 45, 99, 98, 99>>
\* "aes128-ctr"
StrAes128Ctr == <<97, 101, 115, 49, 50, 56, 45, 99, 116, 114>>
\* "bcrypt"
StrBcrypt == <<98, 99, 114, 121, 112, 116>>
\* "scrypt"
StrScrypt == <<115, 99, 114, 121, 112, 116>>
\* "ssh-ed25519"
StrSshEd25519 == <<115, 115, 104, 45, 101, 100, 50, 53, 53, 49, 57>>
\* "ssh-rsa"
StrSshRsa == <<115, 115, 104, 45, 114, 115, 97>>
\* "ssh-dss"
StrSshDss == <<115, 115, 104, 45, 100, 115, 115>>
\* "openssh-key-v1"
Magic == <<111, 112, 101, 110, 115, 115, 104, 45, 107, 101, 121, 45, 118, 49>>
\* "abc123"
StrAbc123 == <<97, 98, 99, 49, 50, 51>>
\* "me@host"
StrComment == <<109, 101, 64, 104, 111, 115, 116>>

\* a null char pointer: equal to no byte string
NullStr == <<-1>>

\* the bytes of a buffer seen as a C string (up to the first NUL)
RECURSIVE CString(_)
CString(b) == IF b = <<>> \/ Head(b) = 0 THEN <<>> ELSE <<Head(b)>> \o CString(Tail(b))

\* strstr: 1-based position of the first occurrence of needle, 0 for NULL
StrStr(hay, needle) ==
  LET hits == { i \in 1..(Len(hay) - Len(needle) + 1) :
                  SubSeq(hay, i, i + Len(needle) - 1) = needle }
  IN IF hits = {} THEN 0 ELSE CHOOSE i \in hits : \A j \in hits : i <= j

\* XSTRCMP(a, b) == 0 on two C strings
StrEq(a, b) == CString(a) = CString(b)

RECURSIVE SumBytes(_)
SumBytes(b) == IF b = <<>> THEN 0 ELSE Head(b) + SumBytes(Tail(b))

\* ---- check_padding ---------------------------------------------------
\* the value of the unsigned char pad in iteration i (from 0) of the loop
PadAt(i) == (1 + i) % 256

\* TRUE when the loop runs to completion, FALSE when it reaches DIE
check_padding(p) == \A i \in 0..(Len(p) - 1) : p[i + 1] = PadAt(i)

\* ---- the cipher table --------------------------------------------------
ssh_ciphers ==
  << [name |-> StrNone,      algo |-> "",    len |-> 0,  mode |-> "none"],
     [name |-> StrAes256Cbc, algo |-> "aes", len |-> 32, mode |-> "cbc"],
     [name |-> NullStr,      algo |-> "",    len |-> 0,  mode |-> "none"] >>

\* index of the first named entry equal to ciphername, 0 when there is none
CipherIndex(ciphername) ==
  LET hits == { i \in 1..2 : StrEq(ciphername, ssh_ciphers[i].name) }
  IN IF hits = {} THEN 0 ELSE CHOOSE i \in hits : \A j \in hits : i <= j

\* ---- ssh_decode_header: magic and the five header fields -----------
Die(msg) == [err |-> msg]

HeaderFields(in) ==
  LET magic == StrStr(CString(in), Magic)
      start == Drop(in, Len(Magic) + 1)
      f1 == SshDecodeString(start, 64)
      f2 == SshDecodeString(f1.rest, 64)
      f3 == SshDecodeString(f2.rest, 128)
      f4 == SshDecodeUint32(f3.rest)
      f5 == SshDecodeString(f4.rest, 2048)
  IN IF magic = 0 THEN Die("magic not found")
     ELSE IF magic # 1 THEN Die("magic not at the beginning")
     ELSE IF f1.err # CRYPT_OK THEN Die(f1.err)
     ELSE IF f2.err # CRYPT_OK THEN Die(f2.err)
     ELSE IF f3.err # CRYPT_OK THEN Die(f3.err)
     ELSE IF f4.err # CRYPT_OK THEN Die(f4.err)
     ELSE IF f5.err # CRYPT_OK THEN Die(f5.err)
     ELSE IF f4.val # <<0, 0, 0, 1>> THEN Die("more than 1 pubkey not supported")
     ELSE [err |-> CRYPT_OK, ciphername |-> f1.val, kdfname |-> f2.val,
           kdfoptions |-> f3.val, rest |-> f5.rest]

\* the kdf branch of ssh_decode_header: [err, name, salt, num_rounds]
KdfResolve(kdfname, kdfoptions) ==
  IF StrEq(kdfname, StrNone)
  THEN [err |-> CRYPT_OK, name |-> StrNone, salt |-> <<>>, num_rounds |-> 0]
  ELSE IF StrEq(kdfname, StrBcrypt)
  THEN LET f1 == SshDecodeString(kdfoptions, 64)
           f2 == SshDecodeUint32(f1.rest)
       IN IF f1.err # CRYPT_OK THEN Die(f1.err)
          ELSE IF f2.err # CRYPT_OK THEN Die(f2.err)
          ELSE IF f2.rest # <<>> THEN Die("unused data")
          ELSE [err |-> CRYPT_OK, name |-> StrBcrypt, salt |-> f1.val,
                num_rounds |-> mp_read_unsigned_bin(f2.val)]
  ELSE Die("unsupported kdf")

\* ---- primitives used by ssh_decrypt_private_keys -------------------
CRYPT_INVALID_CIPHER == "CRYPT_INVALID_CIPHER"

\* find_cipher: index into cipher_descriptor, -1 when not registered
find_cipher(algo) == IF algo = "aes" THEN 0 ELSE -1

\* cipher_descriptor[cipher].block_length; an index of -1 reads outside
\* the table, which may yield any value
BlockLengths(cipher) == IF cipher = 0 THEN {16} ELSE {0, 16, 255}

\* bcrypt_pbkdf_openbsd: [err, out]
bcrypt_pbkdf_openbsd(pass, salt, rounds, outlen) ==
  IF pass = <<>> \/ salt = <<>> \/ rounds = 0 \/ outlen = 0
  THEN [err |-> CRYPT_INVALID_ARG, out |-> <<>>]
  ELSE [err |-> CRYPT_OK,
        out |-> [i \in 1..outlen |-> (SumBytes(pass) + SumBytes(salt) + rounds + i) % 256]]

\* cbc_start(cipher, IV, key, keylen, 0, &cbc_ctx)
cbc_start(cipher) == IF cipher < 0 THEN CRYPT_INVALID_CIPHER ELSE CRYPT_OK

\* cbc_decrypt(ct, pt, len, &cbc_ctx): whole blocks only
cbc_decrypt(ct, ky, iv) ==
  IF Len(ct) % Len(iv) # 0 THEN [err |-> CRYPT_INVALID_ARG, pt |-> ct]
  ELSE [err |-> CRYPT_OK,
        pt |-> [i \in 1..Len(ct) |->
                  (ct[i] + 512 - ky[((i - 1) % Len(ky)) + 1] - iv[((i - 1) % Len(iv)) + 1]) % 256]]

\* the matching encryption, used to build encrypted containers
cbc_encrypt(pt, ky, iv) ==
  [i \in 1..Len(pt) |->
     (pt[i] + ky[((i - 1) % Len(ky)) + 1] + iv[((i - 1) % Len(iv)) + 1]) % 256]

\* ---- ssh_decode_private_key: the head of the private section --------
PrivateHead(in) ==
  LET f1 == SshDecodeUint32(in)
      f2 == SshDecodeUint32(f1.rest)
      f3 == SshDecodeString(f2.rest, 64)
  IN IF f1.err # CRYPT_OK THEN Die(f1.err)
     ELSE IF f2.err # CRYPT_OK THEN Die(f2.err)
     ELSE IF f3.err # CRYPT_OK THEN Die(f3.err)
     ELSE [err |-> CRYPT_OK, check1 |-> f1.val, check2 |-> f2.val,
           pka |-> f3.val, rest |-> f3.rest]

\* ---- the curve registry and ssh_find_init_ecc ---------------------
Curves == {CurveT19, CurveT197, CurveT257}

\* lower case of an ASCII letter
ToLower(c) == IF c \in 65..90 THEN c + 32 ELSE c

\* the string behind its leading ' ', '-' and '_'
SkipSep(x) ==
  LET keep == { i \in 1..Len(x) : x[i] \notin {32, 45, 95} }
  IN IF keep = {} THEN <<>>
     ELSE Drop(x, (CHOOSE i \in keep : \A j \in keep : i <= j) - 1)

\* the registry's name comparison: letters compared without case, and
\* ' ', '-', '_' in front of a compared character passed over
RECURSIVE s_name_match(_, _)
s_name_match(left, right) ==
  IF left = <<>> \/ right = <<>> THEN left = <<>> /\ right = <<>>
  ELSE LET l == SkipSep(left)
           rg == SkipSep(right)
       IN IF l = <<>> \/ rg = <<>> THEN l = <<>> /\ rg = <<>>
          ELSE IF ToLower(l[1]) # ToLower(rg[1]) THEN FALSE
          ELSE s_name_match(Tail(l), Tail(rg))

\* ecc_find_curve(name, &cu)
ecc_find_curve(name) ==
  LET hits == { c \in Curves : s_name_match(c.name, name) }
  IN IF hits = {} THEN [err |-> CRYPT_INVALID_ARG, cu |-> CurveT19]
     ELSE [err |-> CRYPT_OK, cu |-> CHOOSE c \in hits : TRUE]

ssh_find_init_ecc(pka) ==
  LET prefixlen == Len(EcdsaPrefix)
      f == ecc_find_curve(Drop(CString(pka), prefixlen))
  IN IF StrStr(CString(pka), EcdsaPrefix) = 0
     THEN [err |-> CRYPT_PK_INVALID_TYPE, cu |-> CurveT19]
     ELSE f

\* ---- the dispatch loop over ssh_pkas: the index the loop ends with
\* (1..3 for a selected entry, 4 when no entry matches)
PkaIndex(pka) ==
  IF StrEq(pka, StrSshEd25519) THEN 1
  ELSE IF StrEq(pka, StrSshRsa) THEN 2
  ELSE IF ssh_find_init_ecc(pka).err = CRYPT_OK THEN 3
  ELSE 4

\* ---- ssh_decode_rsa ---------------------------------------------------
\* the decoder with tmp1 = q-1 and tmp2 = p-1, as the source comments read
ssh_decode_rsa_swapped(in) ==
  LET f1 == SshDecodeMpint(in)
      f2 == SshDecodeMpint(f1.rest)
      f3 == SshDecodeMpint(f2.rest)
      f4 == SshDecodeMpint(f3.rest)
      f5 == SshDecodeMpint(f4.rest)
      f6 == SshDecodeMpint(f5.rest)
      N  == f1.val
      ee == f2.val
      d  == f3.val
      qP == f4.val
      q  == f5.val
      p  == f6.val
      tmp1 == q - 1
      tmp2 == p - 1
      bad == [err |-> CRYPT_INVALID_PACKET, key |-> [id |-> "unset"], rest |-> <<>>, tmp |-> "unset"]
  IN IF \E f \in {f1, f2, f3, f4, f5, f6} : f.err # CRYPT_OK THEN bad
     ELSE IF tmp1 = 0 \/ tmp2 = 0
          THEN [bad EXCEPT !.err = CRYPT_INVALID_ARG, !.tmp = "set"]
     ELSE [err |-> CRYPT_OK,
           key |-> [id |-> "PKA_RSA", N |-> N, e |-> ee, d |-> d, qP |-> qP, q |-> q, p |-> p,
                    dP |-> mp_mod(d, tmp1), dQ |-> mp_mod(d, tmp2)],
           rest |-> f6.rest, tmp |-> "cleared"]


\* [err, key, rest, tmp]: tmp tells whether tmp1/tmp2 hold a value ("set")
\* and whether mp_clear_multi ran ("cleared")
ssh_decode_rsa(in) ==
  LET f1 == SshDecodeMpint(in)
      f2 == SshDecodeMpint(f1.rest)
      f3 == SshDecodeMpint(f2.rest)
      f4 == SshDecodeMpint(f3.rest)
      f5 == SshDecodeMpint(f4.rest)
      f6 == SshDecodeMpint(f5.rest)
      N  == f1.val
      ee == f2.val
      d  == f3.val
      qP == f4.val
      q  == f5.val
      p  == f6.val
      tmp1 == p - 1
      tmp2 == q - 1
      bad == [err |-> CRYPT_INVALID_PACKET, key |-> [id |-> "unset"], rest |-> <<>>, tmp |-> "unset"]
  IN IF \E f \in {f1, f2, f3, f4, f5, f6} : f.err # CRYPT_OK THEN bad
     ELSE IF tmp1 = 0 \/ tmp2 = 0
          THEN [bad EXCEPT !.err = CRYPT_INVALID_ARG, !.tmp = "set"]
     ELSE [err |-> CRYPT_OK,
           key |-> [id |-> "PKA_RSA", N |-> N, e |-> ee, d |-> d, qP |-> qP, q |-> q, p |-> p,
                    dP |-> mp_mod(d, tmp1), dQ |-> mp_mod(d, tmp2)],
           rest |-> f6.rest, tmp |-> "cleared"]

\* ---- ssh_decode_ecdsa -------------------------------------------------
\* ecc_set_key(privkey, privkeylen, PK_PRIVATE, key): 0 < k < order
ssh_decode_ecdsa(in, cu) ==
  LET f1 == SshDecodeString(in, 64)
      f2 == SshDecodeString(f1.rest, 512)
      f3 == SshDecodeString(f2.rest, 512)
      kk == mp_read_unsigned_bin(f3.val)
      bad == [err |-> CRYPT_INVALID_PACKET, key |-> [id |-> "unset"], rest |-> <<>>, privkey |-> "unset"]
  IN IF \E f \in {f1, f2, f3} : f.err # CRYPT_OK THEN bad
     ELSE IF kk = 0 \/ kk >= cu.order THEN [bad EXCEPT !.privkey = "set"]
     ELSE [err |-> CRYPT_OK,
           key |-> [id |-> "PKA_EC", cu |-> cu, k |-> kk, pubkey |-> PtMul(kk, cu.base, cu)],
           rest |-> f3.rest, privkey |-> "zeroed"]

\* ---- ssh_decode_ed25519 -----------------------------------------------
\* ed25519_import_raw(&privkey[32], 32, PK_PRIVATE, key); bytes of the
\* buffer past the decoded length were never written (-1)
ssh_decode_ed25519(in) ==
  LET f1 == SshDecodeString(in, 2048)
      f2 == SshDecodeString(f1.rest, 2048)
      buf == [i \in 1..64 |-> IF i <= Len(f2.val) THEN f2.val[i] ELSE IF i = Len(f2.val) + 1 THEN 0 ELSE -1]
      bad == [err |-> CRYPT_INVALID_PACKET, key |-> [id |-> "unset"], rest |-> <<>>, privkey |-> "unset"]
  IN IF f1.err # CRYPT_OK \/ f2.err # CRYPT_OK THEN bad
     ELSE [err |-> CRYPT_OK,
           key |-> [id |-> "PKA_ED25519", priv |-> SubSeq(buf, 33, 64)],
           rest |-> f2.rest, privkey |-> "zeroed"]

\* =====================================================================
\* The container pipeline: inputs
\* =====================================================================
MaxPad == 4

\* the padding 1, 2, 3, ... of n bytes as OpenSSH writes it
PadSeq(n) == [i \in 1..n |-> i % 256]

Pads ==
  { PadSeq(n) : n \in 0..MaxPad }
    \cup { <<2>>, <<0>>, <<1, 2, 4, 3>>, <<1, 2, 3, 5>>, <<1, 1>> }
    \cup { PadSeq(255), PadSeq(256), PadSeq(257),
           [PadSeq(256) EXCEPT ![256] = 1], [PadSeq(257) EXCEPT ![200] = 7] }

RsaBody(N, ee, d, qP, q, p) ==
  SshMpint(N) \o SshMpint(ee) \o SshMpint(d) \o SshMpint(qP) \o SshMpint(q) \o SshMpint(p)

\* fabricated keys <<N, e, d, qP, q, p>>; the last three have p or q in {0, 1}
RsaKeys ==
  { <<143, 7, 103, 6, 13, 11>>, <<60491, 7, 17143, 25, 241, 251>>,
    <<13, 7, 5, 0, 13, 1>>, <<11, 7, 5, 0, 1, 11>>, <<0, 7, 5, 0, 13, 0>> }

RsaBodies ==
  { RsaBody(x[1], x[2], x[3], x[4], x[5], x[6]) : x \in RsaKeys }
    \cup { SshMpint(143) \o SshMpint(7) \o <<0, 0, 0, 9, 1>> }

EcBody(cu, kbytes) ==
  SshString(cu.name) \o SshString(<<4, cu.base.x, cu.base.y>>) \o SshString(kbytes)

EcBodies ==
  { EcBody(CurveT19, kb) : kb \in { <<5>>, <<0>>, <<19>>, <<1, 0>> } }
    \cup { SshString(NameT19) \o <<0, 0, 0, 3, 4>> }

EdBodies ==
  { SshString([i \in 1..32 |-> i]) \o SshString([i \in 1..64 |-> (3 * i) % 256]),
    SshString([i \in 1..32 |-> i]) \o SshString([i \in 1..32 |-> (3 * i) % 256]),
    SshString([i \in 1..32 |-> i]) \o <<0, 0, 0, 64, 9>> }

\* <<pka, body>> pairs
KeyParts ==
  { <<StrSshRsa, b>> : b \in RsaBodies }
    \cup { <<EcdsaPrefix \o NameT19, b>> : b \in EcBodies }
    \cup { <<StrSshEd25519, b>> : b \in EdBodies }
    \cup { <<StrSshDss, <<>> >>, <<EcdsaPrefix \o <<110, 111>>, EcBody(CurveT19, <<5>>)>> }
    \cup { <<nm, EcBody(CurveT19, <<5>>)>> :
              nm \in { <<120>> \o EcdsaPrefix \o NameT19,
                       <<120>> \o EcdsaPrefix \o NameT19 \o <<45>>,
                       NameT19 \o EcdsaPrefix,
                       EcdsaPrefix \o <<84, 45, 49, 57>> } }

CheckA == <<18, 52, 86, 120>>
CheckB == <<18, 52, 86, 121>>

SectionHead(c1, c2, kp, comment) == c1 \o c2 \o SshString(kp[1]) \o kp[2] \o comment

Sections ==
  { SectionHead(CheckA, c2, kp, cm) \o pad :
      c2 \in {CheckA, CheckB}, kp \in KeyParts,
      cm \in { SshString(<<>>), SshString(StrComment) }, pad \in Pads }
    \cup { SectionHead(CheckA, CheckA, <<StrSshRsa, RsaBody(143, 7, 103, 6, 13, 11)>>, <<0, 0, 0, 9>>),
           <<18, 52, 86>> }

\* a section padded to whole cipher blocks
DefaultSection ==
  LET sh == SectionHead(CheckA, CheckA, <<StrSshRsa, RsaBody(143, 7, 103, 6, 13, 11)>>,
                        SshString(StrComment))
  IN sh \o PadSeq((16 - (Len(sh) % 16)) % 16)

KdfOpts(salt, rounds) == SshString(salt) \o SshUint32(rounds)

Salt == <<9, 8, 7, 6, 5, 4, 3, 2>>

KdfOptsSet ==
  { <<>>, KdfOpts(Salt, 16), KdfOpts(<<>>, 16), KdfOpts(Salt, 0), KdfOpts(Salt, 16) \o <<0>> }

Header(ciphername, kdfname, kdfoptions, nkeys) ==
  Magic \o <<0>> \o SshString(ciphername) \o SshString(kdfname) \o SshString(kdfoptions)
        \o SshUint32(nkeys) \o SshString(<<1, 2, 3>>)

\* the section encrypted under the key the demo derives from its password
Encrypted(sec, pass) ==
  LET sk == bcrypt_pbkdf_openbsd(pass, Salt, 16, 48).out
  IN cbc_encrypt(sec, SubSeq(sk, 1, 32), SubSeq(sk, 33, 48))

PlainHeader == Header(StrNone, StrNone, <<>>, 1)

Containers ==
  { PlainHeader \o SshString(sec) : sec \in Sections }
    \cup { Header(cn, kn, ko, nk) \o SshString(sec) :
             cn \in {StrNone, StrAes256Cbc, StrAes128Ctr},
             kn \in {StrNone, StrBcrypt, StrScrypt},
             ko \in KdfOptsSet, nk \in {1, 2},
             sec \in {DefaultSection, Encrypted(DefaultSection, StrAbc123)} }
    \cup { Header(StrAes256Cbc, StrBcrypt, KdfOpts(Salt, 16), 1) \o SshString(sec) :
             sec \in { Encrypted(DefaultSection, <<120>>),
                       Encrypted(DefaultSection \o <<1>>, StrAbc123) } }
    \cup { <<>>, <<0>> \o PlainHeader \o SshString(DefaultSection),
           <<120>> \o PlainHeader \o SshString(DefaultSection),
           Magic \o <<0, 0, 0>>, PlainHeader, PlainHeader \o <<0, 0, 0, 9, 1>> }

\* =====================================================================
\* The container pipeline as a state machine (main and its callees)
\* =====================================================================
\* values of opts.cipher that are no index into ssh_ciphers
CipherNull    == 0
CipherGarbage == -1

\* main: opts is an automatic variable and is not initialised
CInit ==
  /\ cpc = "start"
  /\ b64_decoded \in Containers
  /\ opts \in { [name |-> NullStr, cipher |-> c, salt |-> <<>>, num_rounds |-> 0] :
                  c \in {CipherNull, CipherGarbage} }
  /\ hdr = [ciphername |-> <<>>, kdfname |-> <<>>, kdfoptions |-> <<>>]
  /\ remaining = <<>> /\ privkey = <<>>
  /\ dec = [cipher |-> 0, symkey_len |-> 0, symkey |-> <<>>]
  /\ pk = [check1 |-> <<>>, check2 |-> <<>>, pka |-> <<>>, n |-> 0]
  /\ cur = <<>> /\ pka_key = NoKey
  /\ scratch = [symkey |-> "unset", cbc_ctx |-> "unset", ecdsa |-> "unset",
                ed25519 |-> "unset", rsa_tmp |-> "unset"]
  /\ exitmsg = "" /\ trace = <<>>
  /\ VIdle

\* DIE / die: the process exits at once
Exit(msg) == cpc' = "exit" /\ exitmsg' = msg

\* ssh_decode_header: magic, the header fields, num_keys
DecodeHeader ==
  /\ cpc = "start"
  /\ LET h == HeaderFields(b64_decoded) IN
       IF h.err # CRYPT_OK
       THEN Exit(h.err) /\ UNCHANGED <<hdr, remaining>>
       ELSE /\ hdr' = [ciphername |-> h.ciphername, kdfname |-> h.kdfname,
                       kdfoptions |-> h.kdfoptions]
            /\ remaining' = h.rest
            /\ cpc' = "cipher" /\ exitmsg' = exitmsg
  /\ UNCHANGED <<vvars, b64_decoded, opts, privkey, dec, pk, cur, pka_key, scratch, trace>>

\* the loop over ssh_ciphers finds a named entry
CipherFound ==
  /\ cpc = "cipher"
  /\ CipherIndex(hdr.ciphername) # 0
  /\ opts' = [opts EXCEPT !.cipher = CipherIndex(hdr.ciphername)]
  /\ cpc' = "kdf"
  /\ UNCHANGED <<vvars, b64_decoded, hdr, remaining, privkey, dec, pk, cur, pka_key, scratch, exitmsg, trace>>

\* no named entry matches: the loop goes on to the terminating entry and
\* passes its null name to XSTRCMP.  The process may fault there ...
CipherNullCmpFault ==
  /\ cpc = "cipher"
  /\ CipherIndex(hdr.ciphername) = 0
  /\ cpc' = "crash"
  /\ UNCHANGED <<vvars, b64_decoded, opts, hdr, remaining, privkey, dec, pk, cur, pka_key, scratch, exitmsg, trace>>

\* ... or the comparison reports a difference: the loop ends and the test
\* opts->cipher == NULL reads what main left in opts
CipherNullCmpDiffer ==
  /\ cpc = "cipher"
  /\ CipherIndex(hdr.ciphername) = 0
  /\ IF opts.cipher = CipherNull
     THEN Exit("can't find algo")
     ELSE cpc' = "kdf" /\ exitmsg' = exitmsg
  /\ UNCHANGED <<vvars, b64_decoded, opts, hdr, remaining, privkey, dec, pk, cur, pka_key, scratch, trace>>

\* the kdf name and its options
ResolveKdf ==
  /\ cpc = "kdf"
  /\ LET kd == KdfResolve(hdr.kdfname, hdr.kdfoptions) IN
       IF kd.err # CRYPT_OK
       THEN Exit(kd.err) /\ opts' = opts
       ELSE /\ opts' = [opts EXCEPT !.name = kd.name,
                                    !.salt = IF kd.name = StrBcrypt THEN kd.salt ELSE @,
                                    !.num_rounds = IF kd.name = StrBcrypt THEN kd.num_rounds ELSE @]
            /\ cpc' = "privkey" /\ exitmsg' = exitmsg
  /\ UNCHANGED <<vvars, b64_decoded, hdr, remaining, privkey, dec, pk, cur, pka_key, scratch, trace>>

\* main: if (XSTRCMP(opts.name, "none") != 0)
NeedsDecrypt(o) == ~StrEq(o.name, StrNone)

\* main: the private-key section is read and the decryption is entered or skipped
ReadPrivkey ==
  /\ cpc = "privkey"
  /\ LET f == SshDecodeString(remaining, 7200) IN
       IF f.err # CRYPT_OK
       THEN Exit(f.err) /\ privkey' = privkey
       ELSE /\ privkey' = f.val
            /\ cpc' = IF NeedsDecrypt(opts) THEN "decrypt" ELSE "pk_head"
            /\ exitmsg' = exitmsg
  /\ UNCHANGED <<vvars, b64_decoded, opts, hdr, remaining, dec, pk, cur, pka_key, scratch, trace>>

\* ssh_decrypt_private_keys: find_cipher, symkey_len, the size test
DecryptSetup ==
  /\ cpc = "decrypt"
  /\ IF opts.cipher = CipherGarbage
     THEN cpc' = "crash" /\ UNCHANGED <<dec, exitmsg>>
     ELSE LET c == ssh_ciphers[opts.cipher]
              cipher == find_cipher(c.algo)
          IN \E bl \in BlockLengths(cipher) :
               IF 128 < c.len + bl
               THEN Exit("too small") /\ dec' = dec
               ELSE /\ dec' = [cipher |-> cipher, symkey_len |-> c.len + bl, symkey |-> <<>>]
                    /\ cpc' = "derive" /\ exitmsg' = exitmsg
  /\ UNCHANGED <<vvars, b64_decoded, opts, hdr, remaining, privkey, pk, cur, pka_key, scratch, trace>>

\* bcrypt_pbkdf_openbsd(opts->pass, ...) with the password main sets
DecryptDerive ==
  /\ cpc = "derive"
  /\ LET d == bcrypt_pbkdf_openbsd(StrAbc123, opts.salt, opts.num_rounds, dec.symkey_len) IN
       IF d.err # CRYPT_OK
       THEN Exit(d.err) /\ UNCHANGED <<dec, scratch>>
       ELSE /\ dec' = [dec EXCEPT !.symkey = d.out]
            /\ scratch' = [scratch EXCEPT !.symkey = "set"]
            /\ cpc' = "cbc_start" /\ exitmsg' = exitmsg
  /\ UNCHANGED <<vvars, b64_decoded, opts, hdr, remaining, privkey, pk, cur, pka_key, trace>>

DecryptCbcStart ==
  /\ cpc = "cbc_start"
  /\ IF cbc_start(dec.cipher) # CRYPT_OK
     THEN Exit(cbc_start(dec.cipher)) /\ scratch' = scratch
     ELSE /\ scratch' = [scratch EXCEPT !.cbc_ctx = "set"]
          /\ cpc' = "cbc_decrypt" /\ exitmsg' = exitmsg
  /\ UNCHANGED <<vvars, b64_decoded, opts, hdr, remaining, privkey, dec, pk, cur, pka_key, trace>>

\* cbc_decrypt in place, then the two zeromem calls and the return
DecryptCbc ==
  /\ cpc = "cbc_decrypt"
  /\ LET len == ssh_ciphers[opts.cipher].len
         d   == cbc_decrypt(privkey, SubSeq(dec.symkey, 1, len),
                            SubSeq(dec.symkey, len + 1, dec.symkey_len))
     IN IF d.err # CRYPT_OK
        THEN Exit(d.err) /\ UNCHANGED <<privkey, dec, scratch>>
        ELSE /\ privkey' = d.pt
             /\ dec' = [dec EXCEPT !.symkey = [i \in 1..Len(dec.symkey) |-> 0]]
             /\ scratch' = [scratch EXCEPT !.symkey = "zeroed", !.cbc_ctx = "zeroed"]
             /\ cpc' = "pk_head" /\ exitmsg' = exitmsg
  /\ UNCHANGED <<vvars, b64_decoded, opts, hdr, remaining, pk, cur, pka_key, trace>>

\* ---- ssh_decode_private_key -------------------------------------------
\* a comparison that lets any pair of check words through
CheckWordsAny(c1, c2) == TRUE

\* check1 == check2
CheckWordsEqual(c1, c2) == c1 = c2

\* check1, check2 and pka are decoded; if (check1 != check2) DIE
PkHead ==
  /\ cpc = "pk_head"
  /\ LET h == PrivateHead(privkey) IN
       IF h.err # CRYPT_OK
       THEN Exit(h.err) /\ UNCHANGED <<pk, cur, trace>>
       ELSE /\ pk' = [pk EXCEPT !.check1 = h.check1, !.check2 = h.check2, !.pka = h.pka]
            /\ trace' = Append(trace, "integrity")
            /\ IF CheckWordsEqual(h.check1, h.check2)
               THEN cur' = h.rest /\ cpc' = "pk_dispatch" /\ exitmsg' = exitmsg
               ELSE Exit("decrypt failed") /\ cur' = cur
  /\ UNCHANGED <<vvars, b64_decoded, opts, hdr, remaining, privkey, dec, pka_key, scratch>>

\* the loop over ssh_pkas up to the entry it selects
PkDispatch ==
  /\ cpc = "pk_dispatch"
  /\ pk' = [pk EXCEPT !.n = PkaIndex(pk.pka)]
  /\ trace' = Append(trace, "dispatch")
  /\ IF PkaIndex(pk.pka) = 4
     THEN Exit("unsupported pka")
     ELSE cpc' = "pk_decode" /\ exitmsg' = exitmsg
  /\ UNCHANGED <<vvars, b64_decoded, opts, hdr, remaining, privkey, dec, cur, pka_key, scratch>>

\* common tail of ssh_pkas[n].decode(p, &cur_len, key)
PkDecoded(d) ==
  /\ trace' = Append(trace, "decode")
  /\ IF d.err # CRYPT_OK
     THEN Exit(d.err) /\ UNCHANGED <<cur, pka_key>>
     ELSE cur' = d.rest /\ pka_key' = d.key /\ cpc' = "pk_comment" /\ exitmsg' = exitmsg
  /\ UNCHANGED <<vvars, b64_decoded, opts, hdr, remaining, privkey, dec, pk>>

PkDecodeEd25519 ==
  /\ cpc = "pk_decode" /\ pk.n = 1
  /\ LET d == ssh_decode_ed25519(cur) IN
       PkDecoded(d) /\ scratch' = [scratch EXCEPT !.ed25519 = d.privkey]

PkDecodeRsa ==
  /\ cpc = "pk_decode" /\ pk.n = 2
  /\ LET d == ssh_decode_rsa(cur) IN
       PkDecoded(d) /\ scratch' = [scratch EXCEPT !.rsa_tmp = d.tmp]

PkDecodeEcdsa ==
  /\ cpc = "pk_decode" /\ pk.n = 3
  /\ LET d == ssh_decode_ecdsa(cur, ssh_find_init_ecc(pk.pka).cu) IN
       PkDecoded(d) /\ scratch' = [scratch EXCEPT !.ecdsa = d.privkey]

\* the comment string
PkComment ==
  /\ cpc = "pk_comment"
  /\ trace' = Append(trace, "comment")
  /\ LET f == SshDecodeString(cur, 256) IN
       IF f.err # CRYPT_OK
       THEN Exit(f.err) /\ cur' = cur
       ELSE cur' = f.rest /\ cpc' = "pk_padding" /\ exitmsg' = exitmsg
  /\ UNCHANGED <<vvars, b64_decoded, opts, hdr, remaining, privkey, dec, pk, pka_key, scratch>>

\* check_padding(p, remaining); return err; main returns EXIT_SUCCESS
PkPadding ==
  /\ cpc = "pk_padding"
  /\ trace' = Append(trace, "padding")
  /\ IF check_padding(cur)
     THEN cpc' = "done" /\ exitmsg' = exitmsg
     ELSE Exit("pad wrong")
  /\ UNCHANGED <<vvars, b64_decoded, opts, hdr, remaining, privkey, dec, pk, cur, pka_key, scratch>>

CNext ==
  \/ DecodeHeader
  \/ CipherFound
  \/ CipherNullCmpFault
  \/ CipherNullCmpDiffer
  \/ ResolveKdf
  \/ ReadPrivkey
  \/ DecryptSetup
  \/ DecryptDerive
  \/ DecryptCbcStart
  \/ DecryptCbc
  \/ PkHead
  \/ PkDispatch
  \/ PkDecodeEd25519
  \/ PkDecodeRsa
  \/ PkDecodeEcdsa
  \/ PkComment
  \/ PkPadding

SpecSsh == CInit /\ [][CNext]_vars

\* =====================================================================
\* Properties of ecc_verify_hash_ex (checked under SpecVerify)
\* =====================================================================
\* the decoding result of the current arguments
Decoded ==
  CASE sigformat = LTC_ECCSIG_ANSIX962 -> DecodeAnsiX962(sig, key)
    [] sigformat = LTC_ECCSIG_RFC7518  -> DecodeRfc7518(sig, key)
    [] sigformat = LTC_ECCSIG_ETH27    -> DecodeEth27(sig, key)
    [] sigformat = LTC_ECCSIG_RFC5656  -> DecodeRfc5656(sig, key)
    [] OTHER                           -> DecodeResult(CRYPT_ERROR, 0, 0, FALSE)

InRange == 0 < r /\ r < key.dp.order /\ 0 < s /\ s < key.dp.order

\* x(u1*G + u2*Q) mod n = r for the decoded r, s and the reduced digest
EquationHolds ==
  /\ InRange
  /\ HasInv(s, key.dp.order)
  /\ ComputeV(r, s, ReduceHash(hash, key.dp.order), key) = r

\* C1: once the call is entered, *stat is 1 exactly when the call has
\* returned CRYPT_OK and x(u1*G + u2*Q) mod n = r; every error return
\* leaves *stat = 0; a decoded, in-range signature that fails the equation
\* returns CRYPT_OK with *stat = 0.
Inv_C1 ==
  vpc \notin {"off", "idle"} =>
    /\ (stat = 1) <=> (vpc = "ret" /\ err = CRYPT_OK /\ EquationHolds)
    /\ (vpc = "ret" /\ err # CRYPT_OK) => stat = 0
    /\ (vpc = "ret" /\ eqDone /\ ~EquationHolds) => (err = CRYPT_OK /\ stat = 0)

\* a valid signature was accepted
Wit_C1 == vpc = "ret" /\ stat = 1 /\ err = CRYPT_OK /\ sigformat = LTC_ECCSIG_RFC7518

\* C5: in every format, a decoded r or s outside 0 < . < n makes the call
\* return CRYPT_INVALID_PACKET with stat = 0, and the equation is only
\* evaluated for 0 < r < n and 0 < s < n.
Inv_C5 ==
  /\ (vpc \in {"hash", "eq"} \/ eqDone) => InRange
  /\ (vpc = "ret" /\ err # CRYPT_MEM /\ Decoded.err = CRYPT_OK /\ ~InRange)
       => (err = CRYPT_INVALID_PACKET /\ stat = 0 /\ ~eqDone)

\* a decoded signature with r equal to the order was rejected
Wit_C5 ==
  /\ vpc = "ret" /\ Decoded.err = CRYPT_OK /\ r = key.dp.order /\ 0 < s /\ s < key.dp.order
  /\ err = CRYPT_INVALID_PACKET /\ sigformat = LTC_ECCSIG_ANSIX962

\* byte length of the order: the least i with order < 256^i
OrderBytes == CHOOSE i \in 1..4 : key.dp.order < Pow2(8 * i) /\ (i = 1 \/ key.dp.order >= Pow2(8 * (i - 1)))

\* big-endian value of a byte string of at most two bytes
BeValue(b) == IF Len(b) = 1 THEN b[1] ELSE b[1] * 256 + b[2]

\* C6: for LTC_ECCSIG_RFC7518 a signature whose length is not twice the
\* order's byte length returns CRYPT_INVALID_PACKET and neither r nor s is
\* read; with the right length r is the first half and s the second half,
\* each as a big-endian unsigned integer.
Inv_C6 ==
  (sigformat = LTC_ECCSIG_RFC7518 /\ vpc \in {"range", "hash", "eq", "ret"} /\ err # CRYPT_MEM) =>
    IF Len(sig) # 2 * OrderBytes
    THEN vpc = "ret" /\ err = CRYPT_INVALID_PACKET /\ ~sigRead /\ r = 0 /\ s = 0 /\ stat = 0
    ELSE /\ r = BeValue(SubSeq(sig, 1, OrderBytes))
         /\ s = BeValue(SubSeq(sig, OrderBytes + 1, 2 * OrderBytes))

\* a signature one byte short was rejected
Wit_C6 ==
  /\ sigformat = LTC_ECCSIG_RFC7518 /\ vpc = "ret" /\ Len(sig) = 2 * OrderBytes - 1
  /\ err = CRYPT_INVALID_PACKET

\* C7: for LTC_ECCSIG_ETH27 a key whose OID is not 1.3.132.0.10 is
\* rejected with CRYPT_ERROR whatever the signature bytes and length, no
\* signature byte having been read, and stat stays 0.
Inv_C7 ==
  (sigformat = LTC_ECCSIG_ETH27 /\ key.oid # <<1, 3, 132, 0, 10>>
     /\ vpc \in {"range", "hash", "eq", "ret"} /\ err # CRYPT_MEM) =>
    (vpc = "ret" /\ err = CRYPT_ERROR /\ ~sigRead /\ stat = 0 /\ ~eqDone)

\* a signature of a wrong length met a key of another curve
Wit_C7 ==
  /\ sigformat = LTC_ECCSIG_ETH27 /\ key.oid # <<1, 3, 132, 0, 10>> /\ Len(sig) # 65
  /\ vpc = "ret" /\ err = CRYPT_ERROR

\* big-endian value of a byte field, MpCap standing for every value that
\* needs three or more bytes
BeField(b) ==
  IF \E i \in 1..(Len(b) - 2) : b[i] # 0 THEN MpCap
  ELSE b[Len(b) - 1] * 256 + b[Len(b)]

\* the part of the sequence from 0-based offset a up to, not including, offset b
Bytes(sq, a, b) == [i \in 1..(b - a) |-> sq[a + i]]

\* an LTC_ECCSIG_ETH27 call on a secp256k1 key is past the decoding branch
Eth27Decoding ==
  /\ sigformat = LTC_ECCSIG_ETH27 /\ key.oid = <<1, 3, 132, 0, 10>>
  /\ vpc \in {"range", "hash", "eq", "ret"} /\ err # CRYPT_MEM

OrderBits == CHOOSE k \in 1..32 : key.dp.order < Pow2(k) /\ key.dp.order >= Pow2(k - 1)

\* the digest as one big-endian integer
DigestValue == IF hash = <<>> THEN 0 ELSE BeValue(hash)

\* the integer formed by the leftmost min(8 * hashlen, pbits) bits of the digest
LeftmostBits == DigestValue \div Pow2(8 * Len(hash) - Min(8 * Len(hash), OrderBits))

Steps == <<"integrity", "dispatch", "decode", "comment", "padding">>

Did(step) == \E i \in 1..Len(trace) : trace[i] = step

\* the decryption stage was entered / was passed over
DecryptEntered == cpc \in {"decrypt", "derive", "cbc_start", "cbc_decrypt"} \/ scratch.symkey # "unset"
DecryptSkipped == cpc = "pk_head" /\ scratch.symkey = "unset"

\* C2: for a container whose header decoded, the decryption stage is
\* skipped if and only if the resolved cipher is "none".
Cex_C2 ==
  (opts.cipher \in {1, 2}) =>
    /\ DecryptEntered => ssh_ciphers[opts.cipher].name # StrNone
    /\ DecryptSkipped => ssh_ciphers[opts.cipher].name = StrNone

\* C3: ssh_decode_private_key runs integrity check, dispatch, key decoder,
\* comment, padding once each and in that order; the key decoder runs only
\* after check1 = check2 was established; the function returns only when
\* all five steps succeeded, and a failed step is the last one taken.
Inv_C3 ==
  /\ trace = SubSeq(Steps, 1, Len(trace))
  /\ (Did("dispatch") \/ Did("decode")) => Take(privkey, 4) = Take(Drop(privkey, 4), 4)
  /\ Take(privkey, 4) # Take(Drop(privkey, 4), 4) => (pka_key = NoKey /\ cpc # "done")
  /\ cpc = "done" =>
       /\ trace = Steps
       /\ pka_key.id \in {"PKA_RSA", "PKA_EC", "PKA_ED25519"}
       /\ check_padding(cur)
  /\ (cpc = "exit" /\ pka_key # NoKey) => (Did("comment") /\ exitmsg # "")

\* a container was decoded to the end
Wit_C3 == cpc = "done" /\ trace = Steps /\ pka_key.id = "PKA_EC"

\* the bytes in front of the padding form 1, 2, 3, ...: position i (from 0) holds i + 1
Counting(p) == \A i \in 0..(Len(p) - 1) : p[i + 1] = i + 1

\* C4: check_padding accepts the bytes after the comment if and only if
\* the byte at position i (from 0) equals i + 1, for every length.
Cex_C4 == Did("padding") => ((cpc = "done") <=> Counting(cur))

\* the RSA key whose encoding is the key part of the private section
RsaOf(sec, pka) ==
  { x \in RsaKeys :
      LET b == RsaBody(x[1], x[2], x[3], x[4], x[5], x[6])
          at == 8 + 4 + Len(pka)
      IN Take(Drop(sec, at), Len(b)) = b }

\* d mod m for the moduli p - 1 and q - 1 (the remainder modulo -1 is 0)
ModRef(d, m) == IF m > 0 THEN d % m ELSE 0

\* C8: a decoded RSA key holds N, e, d, qP, q, p as encoded, in that
\* order, with dP = d mod (p-1) and dQ = d mod (q-1).
Inv_C8 ==
  pka_key.id = "PKA_RSA" =>
    \E x \in RsaOf(privkey, pk.pka) :
      /\ pka_key.N = x[1] /\ pka_key.e = x[2] /\ pka_key.d = x[3]
      /\ pka_key.qP = x[4] /\ pka_key.q = x[5] /\ pka_key.p = x[6]
      /\ pka_key.dP = ModRef(x[3], x[6] - 1)
      /\ pka_key.dQ = ModRef(x[3], x[5] - 1)

\* the key with two-byte N and d was decoded
Wit_C8 == pka_key.id = "PKA_RSA" /\ pka_key.p = 251 /\ pka_key.dP = 143 /\ cpc = "done"

\* C9: a cipher name that is no entry of ssh_ciphers always ends header
\* decoding with "can't find algo", and header decoding never succeeds
\* unless opts.cipher is the entry named by the decoded cipher name.
Cex_C9 ==
  /\ (cpc \notin {"start", "cipher"} /\ hdr.ciphername \notin {StrNone, StrAes256Cbc}
        /\ HeaderFields(b64_decoded).err = CRYPT_OK)
       => (cpc = "exit" /\ exitmsg = "can't find algo")
  /\ cpc = "privkey" =>
       (opts.cipher \in {1, 2} /\ ssh_ciphers[opts.cipher].name = hdr.ciphername)

\* C10: when the process has ended, no scratch buffer holds a secret
\* that was not zeroed.
Cex_C10 ==
  cpc \in {"exit", "done", "crash"} =>
    \A f \in DOMAIN scratch : scratch[f] # "set"

\* the identifier begins with "ecdsa-sha2-"
HasEcdsaPrefix(pka) == Take(CString(pka), Len(EcdsaPrefix)) = EcdsaPrefix

\* the identifier is one of the exact names of ssh_pkas
ExactName(pka) == StrEq(pka, StrSshEd25519) \/ StrEq(pka, StrSshRsa)

====
